---- MODULE Spec2Model ----
(***************************************************************************)
(* Verification model of kethoo/assess-cvs.                                *)
(*                                                                         *)
(*   src/cv_assessment.py  CVAssessmentSystem: expert-section extraction   *)
(*                         (bold-based loop, mammoth flat-text regex, the  *)
(*                         two-step fallback chain) and the per-candidate  *)
(*                         assessment operations.                          *)
(*   src/app.py            the Streamlit script: structure-aware           *)
(*                         extraction, regex fallback, the Extract and Run *)
(*                         Assessment handlers, ranking.                    *)
(*   src/models.py         the CandidateAssessment dataclass.              *)
(*                                                                         *)
(* Text model.  A role query (expert_name) is a sequence of characters and *)
(* the regular expressions applied to it are computed character by         *)
(* character.  A document is a sequence of paragraphs, a paragraph is a    *)
(* sequence of runs, and a run is a record [k, n, bold]: k is the kind of  *)
(* text the run holds (which decides which of the source's regular         *)
(* expressions match it), n the role number it names, bold its bold flag.  *)
(* The runs stand for these texts (TextOf):                                *)
(*   KeyExpert n  "Key Expert n: Team Leader"          (25 characters)     *)
(*   KE n         "KE n"                               ( 4)                *)
(*   Expert n     "Expert n"                           ( 8)                *)
(*   Annex        "Annex A"                            ( 7)                *)
(*   NonKey       "Non-key experts"                    (15)                *)
(*   GenCond      "General Conditions"                 (18)                *)
(*   Descr        "Qualifications and skills"          (25)                *)
(*   Word         "Must have 10 years experience."     (30)                *)
(*   EndWord      "See the tender dossier."            (23)                *)
(***************************************************************************)
EXTENDS Integers, Sequences, FiniteSets, TLC

VARIABLES
    \* ---- the uploaded tender and the role query ----
    doc,            \* the paragraphs of the tender document (doc.paragraphs)
    docxOpens,      \* Document(path) succeeds
    mammothOpens,   \* open(path) / mammoth.extract_raw_text succeeds
    expert_name,    \* target_expert_name / expert_name, a character sequence
    \* ---- CVAssessmentSystem._extract_expert_sections_by_bold ----
    pc,             \* position in extract_expert_sections
    current_num,    \* current_num: the role number resolved from the query
    idx,            \* index of the paragraph the for-loop is at
    capture,        \* capture
    buffer,         \* buffer: the captured paragraphs (indices into doc)
    sections,       \* sections: the closed segments
    dropped,        \* history: paragraphs that were in buffer when it was overwritten
    \* ---- CVAssessmentSystem.extract_expert_sections ----
    section,        \* result of the bold-based strategy
    flat_section,   \* result of the mammoth-based strategy
    result,         \* value returned by extract_expert_sections
    \* ---- app.py, the Streamlit script ----
    suffix,             \* suffix of req_file.name
    extracted_section,  \* st.session_state.extracted_section
    section_extracted,  \* st.session_state.section_extracted
    strategy_info,      \* the st.info message of the Extract handler
    origin,             \* history: where extracted_section comes from
    last_event,         \* history: the UI event of the last script run
    job_requirements,   \* system.job_requirements
    \* ---- per-candidate assessment and ranking ----
    mode,           \* "structured" or "critical"
    cv_files,       \* the candidates still to be assessed
    oracle,         \* history: what the scoring oracle did for each candidate
    results,        \* results of process_cv_folder, in order
    ranked,         \* the ranking table
    run_state,      \* "idle", "running", "done", "ranked" or "raised"
    \* ---- role-number resolution ----
    resolved,       \* the number each extractor resolved from expert_name
    \* ---- criterion weighting ----
    criteria,       \* the candidate criteria weights
    target_total,   \* T
    table,          \* the finalized criteria table
    \* ---- the requirements text on its way to the scoring oracle, by length ----
    tender_len,     \* len(tender_text)
    section_len,    \* len(expert_section)
    requirements,   \* layout of system.job_requirements
    prompt          \* what the scoring prompt holds of the requirements

extractVars == <<pc, current_num, idx, capture, buffer, sections, dropped, section,
                 flat_section, result>>
inputVars   == <<doc, docxOpens, mammothOpens, expert_name>>
appVars     == <<suffix, extracted_section, section_extracted, strategy_info, origin,
                 last_event, job_requirements>>
assessVars  == <<mode, cv_files, oracle, results, ranked, run_state>>
resolveVars == <<resolved>>
weightVars  == <<criteria, target_total, table>>
promptVars  == <<tender_len, section_len, requirements, prompt>>

vars == <<inputVars, extractVars, appVars, assessVars, resolveVars, weightVars, promptVars>>

\* what the extraction of cv_assessment.py leaves alone
notExtraction == <<appVars, assessVars, resolveVars, weightVars, promptVars>>

-----------------------------------------------------------------------------
(* Bounds of the model *)

\* longest enumerated general document, in paragraphs
MaxParas == 3

\* largest role number named in a document or a query
MaxRole == 3

-----------------------------------------------------------------------------
(* Characters and role queries *)

UpperChars == <<"A","B","C","D","E","F","G","H","I","J","K","L","M",
                "N","O","P","Q","R","S","T","U","V","W","X","Y","Z">>
LowerChars == <<"a","b","c","d","e","f","g","h","i","j","k","l","m",
                "n","o","p","q","r","s","t","u","v","w","x","y","z">>
Digits == <<"0","1","2","3","4","5","6","7","8","9">>

IsIn(c, tuple) == \E i \in 1..Len(tuple) : tuple[i] = c
IndexOf(c, tuple) == CHOOSE i \in 1..Len(tuple) : tuple[i] = c

IsDigit(c) == IsIn(c, Digits)
IsSpace(c) == c = " "
IsWordChar(c) == IsIn(c, UpperChars) \/ IsIn(c, LowerChars) \/ IsDigit(c) \/ c = "_"
DigitVal(c) == IndexOf(c, Digits) - 1

\* str.lower(), one character
LowerChar(c) == IF IsIn(c, UpperChars) THEN LowerChars[IndexOf(c, UpperChars)] ELSE c

\* str.lower()
Lower(s) == [i \in 1..Len(s) |-> LowerChar(s[i])]

\* str.replace(ch, "")
RECURSIVE RemoveChar(_, _)
RemoveChar(s, ch) ==
    IF s = <<>> THEN <<>>
    ELSE IF Head(s) = ch THEN RemoveChar(Tail(s), ch)
         ELSE <<Head(s)>> \o RemoveChar(Tail(s), ch)

\* str.strip()
RECURSIVE LStrip(_)
LStrip(s) == IF s # <<>> /\ IsSpace(Head(s)) THEN LStrip(Tail(s)) ELSE s
RECURSIVE RStrip(_)
RStrip(s) == IF s # <<>> /\ IsSpace(s[Len(s)]) THEN RStrip(SubSeq(s, 1, Len(s) - 1)) ELSE s
Strip(s) == RStrip(LStrip(s))

\* the literal lit occurs in s at position i
LitAt(s, i, lit) ==
    /\ i + Len(lit) - 1 <= Len(s)
    /\ \A j \in 1..Len(lit) : s[i + j - 1] = lit[j]

\* first position at or after i that holds no white space (\s* is greedy)
RECURSIVE SkipSpaces(_, _)
SkipSpaces(s, i) == IF i <= Len(s) /\ IsSpace(s[i]) THEN SkipSpaces(s, i + 1) ELSE i

\* first position at or after i that holds no digit (\d+ is greedy)
RECURSIVE SkipDigits(_, _)
SkipDigits(s, i) == IF i <= Len(s) /\ IsDigit(s[i]) THEN SkipDigits(s, i + 1) ELSE i

\* first position at or after i that holds none of I, V, X ([IVX]+ is greedy,
\* and case-sensitive: the search is made without re.IGNORECASE)
IsRoman(c) == c \in {"I", "V", "X"}
RECURSIVE SkipRoman(_, _)
SkipRoman(s, i) == IF i <= Len(s) /\ IsRoman(s[i]) THEN SkipRoman(s, i + 1) ELSE i

\* int() of a digit string
RECURSIVE IntOf(_)
IntOf(ds) == IF ds = <<>> THEN 0 ELSE 10 * IntOf(SubSeq(ds, 1, Len(ds) - 1)) + DigitVal(ds[Len(ds)])

\* s in t, for character sequences
Contains(t, s) == \E i \in 1..(Len(t) - Len(s) + 1) : LitAt(t, i, s)

-----------------------------------------------------------------------------
(* Role queries, as the user types them into the expert_name input *)

Num(n) == <<Digits[n + 1]>>

Q_KeyExpert(n)   == <<"K","e","y"," ","E","x","p","e","r","t"," ">> \o Num(n)
Q_keyexpert(n)   == <<"k","e","y"," ","e","x","p","e","r","t"," ">> \o Num(n)
Q_keyexpertN(n)  == <<"k","e","y"," ","e","x","p","e","r","t">> \o Num(n)
Q_KEYEXPERT(n)   == <<"K","E","Y"," ","E","X","P","E","R","T"," ">> \o Num(n)
Q_KE(n)          == <<"K","E"," ">> \o Num(n)
Q_KEN(n)         == <<"K","E">> \o Num(n)
Q_ke(n)          == <<"k","e"," ">> \o Num(n)
Q_keN(n)         == <<"k","e">> \o Num(n)
Q_Expert(n)      == <<"E","x","p","e","r","t"," ">> \o Num(n)
Q_ParenKE(n)     == <<"K","e","y"," ","E","x","p","e","r","t"," ","(","K","E"," ">> \o Num(n) \o <<")">>
Q_TeamLeader     == <<"T","e","a","m"," ","L","e","a","d","e","r">>

Roles == 1..MaxRole

\* the spellings of "Key Expert n" that differ only by case, spacing or abbreviation
Variants(n) == {Q_KeyExpert(n), Q_keyexpert(n), Q_keyexpertN(n), Q_KEYEXPERT(n),
                Q_KE(n), Q_KEN(n), Q_ke(n), Q_keN(n)}

Queries == UNION {Variants(n) \cup {Q_Expert(n), Q_ParenKE(n)} : n \in Roles}
           \cup {Q_TeamLeader}

-----------------------------------------------------------------------------
(* Role-number resolution *)

\* target_expert_name.lower().replace("(", "").replace(")", "").strip()
Normalize(name) == Strip(RemoveChar(RemoveChar(Lower(name), "("), ")"))

\* re.match of (?:key\s*expert\s*|ke\s*)(\d+) at position i, re.IGNORECASE:
\* the position of the first digit of group 1, or 0 when there is no match
NumGroupAt(s, i) ==
    LET l    == Lower(s)
        viaK == IF LitAt(l, i, <<"k","e","y">>)
                THEN LET j == SkipSpaces(l, i + 3)
                     IN  IF LitAt(l, j, <<"e","x","p","e","r","t">>)
                         THEN SkipSpaces(l, j + 6) ELSE 0
                ELSE 0
        viaE == IF LitAt(l, i, <<"k","e">>) THEN SkipSpaces(l, i + 2) ELSE 0
    IN  IF viaK # 0 /\ viaK <= Len(l) /\ IsDigit(l[viaK]) THEN viaK
        ELSE IF viaE # 0 /\ viaE <= Len(l) /\ IsDigit(l[viaE]) THEN viaE
        ELSE 0

\* re.search: the leftmost position with a match, group 1 as a digit string,
\* or <<>> when nothing matches
NumSearch(s) ==
    LET hits == {i \in 1..Len(s) : NumGroupAt(s, i) # 0}
    IN  IF hits = {} THEN <<>>
        ELSE LET i == CHOOSE h \in hits : \A g \in hits : h <= g
                 d == NumGroupAt(s, i)
             IN  SubSeq(s, d, SkipDigits(s, d) - 1)

\* current_num = int(num_match.group(1)) if num_match else 1
current_num_of(name) ==
    LET m == NumSearch(Normalize(name))
    IN  IF m # <<>> THEN IntOf(m) ELSE 1

\* re.search(r'(\d+|[IVX]+)', expert_name): group 1, or <<>> for None
target_number_of(name) ==
    LET hits == {i \in 1..Len(name) : IsDigit(name[i]) \/ IsRoman(name[i])}
    IN  IF hits = {} THEN <<>>
        ELSE LET i == CHOOSE h \in hits : \A g \in hits : h <= g
             IN  IF IsDigit(name[i]) THEN SubSeq(name, i, SkipDigits(name, i) - 1)
                 ELSE SubSeq(name, i, SkipRoman(name, i) - 1)

-----------------------------------------------------------------------------
(* Documents *)

\* a run: kind of text, role number it names (0: none), bold flag
Run(k, n, b) == [k |-> k, n |-> n, bold |-> b]

\* the text of a run, lower-cased (every match against document text is made
\* case-insensitively or after .lower())
TextOf(r) ==
    CASE r.k = "KeyExpert" -> <<"k","e","y"," ","e","x","p","e","r","t"," ">> \o Num(r.n)
                              \o <<":"," ","t","e","a","m"," ","l","e","a","d","e","r">>
      [] r.k = "KE"        -> <<"k","e"," ">> \o Num(r.n)
      [] r.k = "Expert"    -> <<"e","x","p","e","r","t"," ">> \o Num(r.n)
      [] r.k = "Annex"     -> <<"a","n","n","e","x"," ","a">>
      [] r.k = "NonKey"    -> <<"n","o","n","-","k","e","y"," ","e","x","p","e","r","t","s">>
      [] r.k = "GenCond"   -> <<"g","e","n","e","r","a","l"," ","c","o","n","d","i","t","i","o","n","s">>
      [] r.k = "Descr"     -> <<"q","u","a","l","i","f","i","c","a","t","i","o","n","s"," ",
                                "a","n","d"," ","s","k","i","l","l","s">>
      [] r.k = "Word"      -> <<"m","u","s","t"," ","h","a","v","e"," ","1","0"," ",
                                "y","e","a","r","s"," ","e","x","p","e","r","i","e","n","c","e",".">>
      [] r.k = "EndWord"   -> <<"s","e","e"," ","t","h","e"," ","t","e","n","d","e","r"," ",
                                "d","o","s","s","i","e","r",".">>

\* len() of a run's text
RunLen(r) == Len(TextOf(r))

\* number of words of a run's text: len(text.split())
RunWords(r) == Cardinality({i \in 1..RunLen(r) : IsSpace(TextOf(r)[i])}) + 1

RECURSIVE SumSeq(_)
SumSeq(s) == IF s = <<>> THEN 0 ELSE Head(s) + SumSeq(Tail(s))

\* len(para.text.strip()); the runs after the first begin with one space
ParaLen(p) == IF p = <<>> THEN 0
              ELSE SumSeq([i \in 1..Len(p) |-> RunLen(p[i])]) + Len(p) - 1

\* para.text.strip().lower()
RECURSIVE ParaText(_)
ParaText(p) == IF p = <<>> THEN <<>>
               ELSE IF Len(p) = 1 THEN TextOf(p[1])
               ELSE TextOf(p[1]) \o <<" ">> \o ParaText(Tail(p))

\* the paragraphs a document is made of
H(n)      == <<Run("KeyExpert", n, FALSE)>>      \* "Key Expert n: Team Leader"
KEh(n)    == <<Run("KE", n, TRUE)>>              \* "KE n", a bold heading
Eh(n)     == <<Run("Expert", n, FALSE)>>         \* "Expert n"
Body      == <<Run("Word", 0, FALSE)>>           \* plain requirement text
BoldBody  == <<Run("Word", 0, TRUE)>>            \* requirement text set in bold
Sub       == <<Run("Descr", 0, TRUE)>>           \* bold sub-heading inside a role
Annex     == <<Run("Annex", 0, FALSE)>>          \* "Annex A", not bold
AnnexB    == <<Run("Annex", 0, TRUE)>>           \* "Annex A", bold
AnnexCV   == <<Run("Annex", 0, TRUE), Run("KeyExpert", 1, TRUE)>>
                                                 \* "Annex A Key Expert 1: Team Leader"
NonKey    == <<Run("NonKey", 0, TRUE)>>
GenCond   == <<Run("GenCond", 0, TRUE)>>
Tender    == <<Run("EndWord", 0, FALSE)>>
Blank     == <<>>                                \* a paragraph without text

ParaKinds == {H(1), H(2), KEh(1), Eh(2), Body, Sub, Annex, AnnexB, AnnexCV, Blank}

RECURSIVE SeqsUpTo(_, _)
SeqsUpTo(S, n) ==
    IF n = 0 THEN {<<>>}
    ELSE LET shorter == SeqsUpTo(S, n - 1)
         IN  shorter \cup {Append(s, x) : s \in {t \in shorter : Len(t) = n - 1}, x \in S}

\* every document of at most MaxParas paragraphs
GeneralDocs == SeqsUpTo(ParaKinds, MaxParas)

\* documents of the shape
\*   role a heading, content, role b heading, content,
\*   role a heading (again), content, role c heading, content
ShapeDocs ==
    { <<h1, c1, H(2), c2, h1, c1, h3, c2>> :
        h1 \in {H(1), KEh(1)}, c1 \in {Body, BoldBody}, c2 \in {Body, Sub},
        h3 \in {H(3), KEh(3), Eh(3)} }

\* documents whose last role is followed by an annex
AnnexDocs ==
    { <<H(2), Body, h, Body>> \o tail :
        h \in {H(1), KEh(1)},
        tail \in { <<a, Body>> : a \in {Annex, AnnexB, AnnexCV, NonKey, GenCond, Tender} } }

Docs == GeneralDocs \cup ShapeDocs \cup AnnexDocs

-----------------------------------------------------------------------------
(* Extracted text *)

\* A str returned by an extractor: kind "text" with its segments in order (no
\* segment: the empty string ""), kind "error" for a string that starts with
\* the warning marker, kind "none" while nothing was returned yet.  A segment is
\* the sequence of the positions <<paragraph, run>> of the text it holds; the
\* segments of a text are joined by the dashed separator line.
NoText      == [kind |-> "none",  segs |-> <<>>]
EmptyText   == [kind |-> "text",  segs |-> <<>>]
ErrorText   == [kind |-> "error", segs |-> <<>>]
TextOfSegs(ss) == [kind |-> "text", segs |-> ss]

\* positions of the runs of paragraph i of document d
ParaPositions(d, i) == [r \in 1..Len(d[i]) |-> <<i, r>>]

RECURSIVE Flatten(_)
Flatten(ss) == IF ss = <<>> THEN <<>> ELSE Head(ss) \o Flatten(Tail(ss))

\* positions of the paragraphs listed in buf, in order
PositionsOf(d, buf) == Flatten([j \in 1..Len(buf) |-> ParaPositions(d, buf[j])])

\* len() of the text at the positions seg, runs and paragraphs joined by one space
SegLen(d, seg) ==
    IF seg = <<>> THEN 0
    ELSE SumSeq([j \in 1..Len(seg) |-> RunLen(d[seg[j][1]][seg[j][2]])]) + Len(seg) - 1

\* paragraphs of which some text is in the returned str
ParasOfSeg(seg) == {seg[j][1] : j \in 1..Len(seg)}
ParasIn(t) == UNION {ParasOfSeg(t.segs[s]) : s \in 1..Len(t.segs)}

\* the list without the length filter
SelectLonger_KeepAll(d, ss, min) == ss

\* filter, keeping order
RECURSIVE SelectLonger(_, _, _)
SelectLonger(d, ss, min) ==
    IF ss = <<>> THEN <<>>
    ELSE IF SegLen(d, Head(ss)) > min
         THEN <<Head(ss)>> \o SelectLonger(d, Tail(ss), min)
         ELSE SelectLonger(d, Tail(ss), min)

-----------------------------------------------------------------------------
(* CVAssessmentSystem._extract_expert_sections_by_bold *)

\* len(s) > 40
BoldMinLen == 40

\* re.search(rf"(?i)(key\s*expert\s*{current_num}\b|ke\s*{current_num}\b)", text)
IsTargetRun(r, cur) == r.k \in {"KeyExpert", "KE"} /\ r.n = cur
MatchesCurrent(p, cur) == \E i \in 1..Len(p) : IsTargetRun(p[i], cur)

\* re.search(rf"(?i)(key\s*expert\s*(?:{next_num}|[1-9]\d*)\b|ke\s*(?:{next_num}|[1-9]\d*)\b
\*               |non[-\s]*key|annex|general\s+conditions)", text)
IsSectionEndRun(r) ==
    \/ r.k \in {"KeyExpert", "KE"} /\ r.n >= 1
    \/ r.k \in {"NonKey", "Annex", "GenCond"}
MatchesSectionEnd(p) == \E i \in 1..Len(p) : IsSectionEndRun(p[i])

\* any(run.bold for run in para.runs if run.text.strip())
AnyRunBold(p) == \E i \in 1..Len(p) : p[i].bold

\* clean = [s for s in sections if len(s) > 40]; "" or the joined clean list
JoinClean(d, ss, min) == TextOfSegs(SelectLonger(d, ss, min))

\* Document(docx_path) raises: return the "Could not open document" marker
Bold_OpenFails ==
    /\ pc = "call"
    /\ ~docxOpens
    /\ section' = ErrorText
    /\ pc' = "bold_returned"
    /\ UNCHANGED <<doc, docxOpens, mammothOpens, expert_name, current_num, idx, capture, buffer,
                   sections, dropped, flat_section, result>>
    /\ UNCHANGED notExtraction

\* Document(docx_path) succeeds: sections = [], capture = False, buffer = []
Bold_Open ==
    /\ pc = "call"
    /\ docxOpens
    /\ current_num' = current_num_of(expert_name)
    /\ idx' = 1
    /\ capture' = FALSE
    /\ buffer' = <<>>
    /\ sections' = <<>>
    /\ pc' = "bold_loop"
    /\ UNCHANGED <<doc, docxOpens, mammothOpens, expert_name, dropped, section,
                   flat_section, result>>
    /\ UNCHANGED notExtraction

InLoop == pc = "bold_loop" /\ idx <= Len(doc)

\* if not text: continue
Bold_SkipBlank ==
    /\ InLoop
    /\ doc[idx] = <<>>
    /\ idx' = idx + 1
    /\ UNCHANGED <<doc, docxOpens, mammothOpens, expert_name, current_num, pc, capture, buffer,
                   sections, dropped, section, flat_section, result>>
    /\ UNCHANGED notExtraction

\* the paragraph names the current expert: capture = True; buffer = [text]
Bold_Start ==
    /\ InLoop
    /\ doc[idx] # <<>>
    /\ MatchesCurrent(doc[idx], current_num)
    /\ capture' = TRUE
    /\ buffer' = <<idx>>
    /\ dropped' = dropped \cup {buffer[j] : j \in 1..Len(buffer)}
    /\ idx' = idx + 1
    /\ UNCHANGED <<doc, docxOpens, mammothOpens, expert_name, current_num, pc, sections, section,
                   flat_section, result>>
    /\ UNCHANGED notExtraction

\* capturing, and the paragraph names an expert or a closing section:
\* sections.append(" ".join(buffer)); buffer = []; capture = False
Bold_Stop ==
    /\ InLoop
    /\ doc[idx] # <<>>
    /\ ~MatchesCurrent(doc[idx], current_num)
    /\ capture
    /\ MatchesSectionEnd(doc[idx])
    /\ sections' = Append(sections, buffer)
    /\ buffer' = <<>>
    /\ capture' = FALSE
    /\ idx' = idx + 1
    /\ UNCHANGED <<doc, docxOpens, mammothOpens, expert_name, current_num, pc, dropped, section,
                   flat_section, result>>
    /\ UNCHANGED notExtraction

\* capturing, and the paragraph has a bold run (safety cutoff): close the segment
Bold_Cutoff ==
    /\ InLoop
    /\ doc[idx] # <<>>
    /\ ~MatchesCurrent(doc[idx], current_num)
    /\ capture
    /\ ~MatchesSectionEnd(doc[idx])
    /\ AnyRunBold(doc[idx])
    /\ sections' = Append(sections, buffer)
    /\ buffer' = <<>>
    /\ capture' = FALSE
    /\ idx' = idx + 1
    /\ UNCHANGED <<doc, docxOpens, mammothOpens, expert_name, current_num, pc, dropped, section,
                   flat_section, result>>
    /\ UNCHANGED notExtraction

\* if capture: buffer.append(text)
Bold_Append ==
    /\ InLoop
    /\ doc[idx] # <<>>
    /\ ~MatchesCurrent(doc[idx], current_num)
    /\ capture
    /\ ~MatchesSectionEnd(doc[idx])
    /\ ~AnyRunBold(doc[idx])
    /\ buffer' = Append(buffer, idx)
    /\ idx' = idx + 1
    /\ UNCHANGED <<doc, docxOpens, mammothOpens, expert_name, current_num, pc, capture, sections,
                   dropped, section, flat_section, result>>
    /\ UNCHANGED notExtraction

\* not capturing and not the current expert: the paragraph is passed over
Bold_PassOver ==
    /\ InLoop
    /\ doc[idx] # <<>>
    /\ ~MatchesCurrent(doc[idx], current_num)
    /\ ~capture
    /\ idx' = idx + 1
    /\ UNCHANGED <<doc, docxOpens, mammothOpens, expert_name, current_num, pc, capture, buffer,
                   sections, dropped, section, flat_section, result>>
    /\ UNCHANGED notExtraction

\* sections as the loop leaves them, with the open buffer flushed:
\* if buffer: sections.append(" ".join(buffer))
FlushedSections == IF buffer # <<>> THEN Append(sections, buffer) ELSE sections

\* end of the loop: flush, drop the short segments, join
Bold_Return ==
    /\ pc = "bold_loop"
    /\ idx > Len(doc)
    /\ sections' = FlushedSections
    /\ section' = JoinClean(doc, [s \in 1..Len(FlushedSections) |->
                                      PositionsOf(doc, FlushedSections[s])], BoldMinLen)
    /\ pc' = "bold_returned"
    /\ UNCHANGED <<doc, docxOpens, mammothOpens, expert_name, current_num, idx, capture, buffer,
                   dropped, flat_section, result>>
    /\ UNCHANGED notExtraction

-----------------------------------------------------------------------------
(* CVAssessmentSystem._extract_expert_sections_by_mammoth *)

\* len(m.strip()) > 30
MammothMinLen == 30

\* text = " ".join(result.value.split()): the runs of the document in order
FlatText(d) == Flatten([i \in 1..Len(d) |-> ParaPositions(d, i)])

\* the lookahead (?=(?:Key\s*Expert\s*(?:{next_num}|[1-9]\d*)\b|KE\s*(?:...)\b
\*                   |Non[-\s]*Key|Annex|$))
IsFlatBoundaryRun(r) ==
    \/ r.k \in {"KeyExpert", "KE"} /\ r.n >= 1
    \/ r.k \in {"NonKey", "Annex"}

\* least element of a non-empty set of numbers
Least(S) == CHOOSE x \in S : \A y \in S : x <= y

\* pattern.findall(text) from position i on: each match starts at a run that
\* names the current expert and ends, lazily, before the next boundary
RECURSIVE FindAllFrom(_, _, _, _)
FindAllFrom(d, flat, i, cur) ==
    LET starts == {j \in i..Len(flat) : IsTargetRun(d[flat[j][1]][flat[j][2]], cur)}
    IN  IF starts = {} THEN <<>>
        ELSE LET j    == Least(starts)
                 ends == {k \in (j + 1)..Len(flat) :
                             IsFlatBoundaryRun(d[flat[k][1]][flat[k][2]])}
                 k    == IF ends = {} THEN Len(flat) + 1 ELSE Least(ends)
             IN  <<SubSeq(flat, j, k - 1)>> \o FindAllFrom(d, flat, k, cur)

extract_expert_sections_by_mammoth(d, opens, name) ==
    IF ~opens THEN ErrorText
    ELSE IF FlatText(d) = <<>> THEN EmptyText
    ELSE JoinClean(d, FindAllFrom(d, FlatText(d), 1, current_num_of(name)), MammothMinLen)

-----------------------------------------------------------------------------
(* CVAssessmentSystem.extract_expert_sections *)

\* the acceptance test without its startswith(warning marker) conjunct
Acceptable_WithoutMarkerTest(t) == t.kind = "error" \/ (t.kind = "text" /\ t.segs # <<>>)

\* section and not section.startswith(warning marker) and section.strip()
Acceptable(t) == t.kind = "text" /\ t.segs # <<>>

\* 1: the bold-based result is accepted and returned
Chain_ReturnBold ==
    /\ pc = "bold_returned"
    /\ Acceptable(section)
    /\ result' = section
    /\ pc' = "returned"
    /\ UNCHANGED <<doc, docxOpens, mammothOpens, expert_name, current_num, idx, capture, buffer,
                   sections, dropped, section, flat_section>>
    /\ UNCHANGED notExtraction

\* 2: fall back to the mammoth-based extraction
Chain_CallMammoth ==
    /\ pc = "bold_returned"
    /\ ~Acceptable(section)
    /\ flat_section' = extract_expert_sections_by_mammoth(doc, mammothOpens, expert_name)
    /\ pc' = "mammoth_returned"
    /\ UNCHANGED <<doc, docxOpens, mammothOpens, expert_name, current_num, idx, capture, buffer,
                   sections, dropped, section, result>>
    /\ UNCHANGED notExtraction

Chain_ReturnMammoth ==
    /\ pc = "mammoth_returned"
    /\ Acceptable(flat_section)
    /\ result' = flat_section
    /\ pc' = "returned"
    /\ UNCHANGED <<doc, docxOpens, mammothOpens, expert_name, current_num, idx, capture, buffer,
                   sections, dropped, section, flat_section>>
    /\ UNCHANGED notExtraction

\* return ""
Chain_ReturnEmpty ==
    /\ pc = "mammoth_returned"
    /\ ~Acceptable(flat_section)
    /\ result' = EmptyText
    /\ pc' = "returned"
    /\ UNCHANGED <<doc, docxOpens, mammothOpens, expert_name, current_num, idx, capture, buffer,
                   sections, dropped, section, flat_section>>
    /\ UNCHANGED notExtraction

-----------------------------------------------------------------------------
(* app.py: extract_expert_section_fallback *)

\* text typed or pasted by the user into the preview editor
TypedText == [kind |-> "typed", segs |-> <<>>]

\* bool(s) of a str
Truthy(t) == t.kind \in {"typed", "error"} \/ (t.kind = "text" /\ t.segs # <<>>)

\* tender_text as load_job_requirements returns it: the runs of the document in
\* order, for a Word file as for a PDF
TenderText(d) == FlatText(d)

\* the run holds the literal expert_name, case-insensitively (re.escape(expert_name)
\* under re.IGNORECASE)
RunHoldsName(r, name) == Contains(TextOf(r), Lower(name))

\* the number a role marker of the run is followed by, as a digit string
MarkerNumber(r) == Num(r.n)

\* the lookahead of the pattern built when the query holds a number:
\*   (?:Key\s*Expert|Expert|KE|Non[-\s]*Key)\s*[#\-]?\s*(?!{target_number})\d+
\*   |Annex|Annexe|General\s+Conditions|Terms\s+and\s+Conditions|Appendix|END|$
\* (?!{target_number}) rejects a number that starts with the target number
IsNumberedBoundaryRun(r, target_number) ==
    \/ /\ r.k \in {"KeyExpert", "KE", "Expert"}
       /\ ~LitAt(MarkerNumber(r), 1, target_number)
    \/ r.k \in {"Annex", "GenCond", "EndWord"}

\* the lookahead of the pattern built when the query holds no number:
\*   Key\s*Expert\s*\d|KE\s*\d|Expert\s+in|Non[-\s]*Key|Annex|General\s+Conditions|Terms|END|$
IsNamedBoundaryRun(r) ==
    \/ r.k \in {"KeyExpert", "KE"}
    \/ r.k \in {"NonKey", "Annex", "GenCond", "EndWord"}

\* pattern.search(full_text): the text from the first run that holds the name
\* up to the first boundary after it.  A run of kind EndWord holds its boundary
\* ("end" in "tender") past its first word, so the start of that run is still
\* part of the match.
extract_expert_section_fallback(d, full_text, name) ==
    IF full_text = <<>> \/ name = <<>> THEN EmptyText
    ELSE
    LET tn     == target_number_of(name)
        isEnd(r) == IF tn # <<>> THEN IsNumberedBoundaryRun(r, tn) ELSE IsNamedBoundaryRun(r)
        runAt(j) == d[full_text[j][1]][full_text[j][2]]
        starts == {j \in 1..Len(full_text) : RunHoldsName(runAt(j), name)}
    IN  IF starts = {} THEN EmptyText
        ELSE LET j    == Least(starts)
                 ends == {k \in (j + 1)..Len(full_text) : isEnd(runAt(k))}
                 k    == IF ends = {} THEN Len(full_text) + 1 ELSE Least(ends)
                 last == IF k <= Len(full_text) /\ runAt(k).k = "EndWord" THEN k ELSE k - 1
             IN  TextOfSegs(<<SubSeq(full_text, j, last)>>)

-----------------------------------------------------------------------------
(* app.py: extract_expert_section_with_structure *)

\* the line of dashes appended before a bold sub-heading, as a part of the result
Separator == <<>>

\* expert_name.lower() in text.lower()
ParaHoldsName(p, name) == p # <<>> /\ Contains(ParaText(p), Lower(name))

\* expert_pattern.search(text): the number of the first role marker
\*   \b(Key\s*Expert|Expert|KE|Non[-\s]*Key\s*Expert)\s*[#\-]?\s*(\d+|[IVX]+)\b
\* as a digit string, or <<>> when the paragraph names no numbered role
HasMarker(r) == r.k \in {"KeyExpert", "KE", "Expert"}
FirstMarker(p) ==
    LET hits == {i \in 1..Len(p) : HasMarker(p[i])}
    IN  IF hits = {} THEN <<>> ELSE MarkerNumber(p[Least(hits)])

\* is_different_expert(text)
is_different_expert(p, target_number) ==
    /\ FirstMarker(p) # <<>>
    /\ target_number # <<>>
    /\ FirstMarker(p) # target_number

\* is_bold(paragraph): the majority of the runs is bold
is_bold(p) ==
    /\ p # <<>>
    /\ 2 * Cardinality({i \in 1..Len(p) : p[i].bold}) > Len(p)

\* is_end_section(text): any of end_section_keywords in the text
is_end_section(p) == \E i \in 1..Len(p) : p[i].k \in {"Annex", "GenCond"}

\* is_expert_description(text): any of expert_description_keywords in the text
is_expert_description(p) == \E i \in 1..Len(p) : p[i].k \in {"Descr", "Word"}

\* len(text.split())
ParaWords(p) == SumSeq([i \in 1..Len(p) |-> RunWords(p[i])])

\* first pass: is a different numbered expert named after the first paragraph
\* that holds the name
found_next_expert_of(d, name) ==
    LET tn     == target_number_of(name)
        starts == {i \in 1..Len(d) : ParaHoldsName(d[i], name)}
    IN  /\ starts # {}
        /\ \E i \in (Least(starts) + 1)..Len(d) : is_different_expert(d[i], tn)

\* the extraction loop from paragraph i on; st = [started, current_section,
\* extracted_parts]; the result is st at the break or at the end of the document
RECURSIVE StructureLoop(_, _, _, _, _)
StructureLoop(d, name, found_next, i, st) ==
    IF i > Len(d) THEN st
    ELSE LET p  == d[i]
             tn == target_number_of(name)
         IN  IF p = <<>> THEN StructureLoop(d, name, found_next, i + 1, st)
             ELSE IF ~st.started
             THEN IF ParaHoldsName(p, name)
                  THEN StructureLoop(d, name, found_next, i + 1,
                           [st EXCEPT !.started = TRUE,
                                      !.current_section = Append(@, i)])
                  ELSE StructureLoop(d, name, found_next, i + 1, st)
             ELSE IF is_different_expert(p, tn) THEN st
             ELSE IF ~found_next /\ is_bold(p) /\ is_end_section(p) THEN st
             ELSE IF is_bold(p) /\ (is_expert_description(p) \/ ParaWords(p) <= 5)
             THEN StructureLoop(d, name, found_next, i + 1,
                      [st EXCEPT !.current_section = <<>>,
                                 !.extracted_parts =
                                     (IF st.current_section # <<>>
                                      THEN Append(@, PositionsOf(d, st.current_section))
                                      ELSE @) \o <<Separator, ParaPositions(d, i)>>])
             ELSE StructureLoop(d, name, found_next, i + 1,
                      [st EXCEPT !.current_section = Append(@, i)])

\* the body of the try block: loop, then "if current_section: extracted_parts.append"
StructureParts(d, name) ==
    LET st == StructureLoop(d, name, found_next_expert_of(d, name), 1,
                  [started |-> FALSE, current_section |-> <<>>, extracted_parts |-> <<>>])
    IN  IF st.current_section # <<>>
        THEN Append(st.extracted_parts, PositionsOf(d, st.current_section))
        ELSE st.extracted_parts

\* file_suffix: the suffix of the file name; opens: Document(file_path) succeeds
extract_expert_section_with_structure(d, file_suffix, opens, name) ==
    IF name = <<>> THEN EmptyText
    ELSE IF file_suffix \notin {".docx", ".doc"}
         THEN extract_expert_section_fallback(d, TenderText(d), name)
    ELSE IF ~opens
         THEN extract_expert_section_fallback(d, TenderText(d), name)
    ELSE TextOfSegs(StructureParts(d, name))

-----------------------------------------------------------------------------
(* app.py: the Streamlit script.  Every UI event runs the script once, from   *)
(* the top: the handler of the clicked button, then the preview editor,      *)
(* which stores its content back into st.session_state.extracted_section.    *)

\* tender_text[:5000]
GeneralLimit == 5000

\* s[:n] of a text given by the positions of its runs: the runs that begin
\* before character n (off: the 0-based offset of the first run of flat)
RECURSIVE TakeChars(_, _, _, _)
TakeChars(d, flat, off, n) ==
    IF flat = <<>> \/ off >= n THEN <<>>
    ELSE <<Head(flat)>> \o
         TakeChars(d, Tail(flat), off + RunLen(d[Head(flat)[1]][Head(flat)[2]]) + 1, n)

\* self.job_requirements = "" (CVAssessmentSystem.__init__)
NoRequirements == [labelled |-> FALSE, general |-> <<>>, expert |-> NoText]

\* the whole tender text, unlabelled
FullTender(tender) == [labelled |-> FALSE, general |-> tender, expert |-> NoText]

\* the handler without its "if not expert_section" branch
combined_text_AlwaysLabelled(d, tender, expert_section) ==
    [labelled |-> TRUE,
     general  |-> TakeChars(d, tender, 0, GeneralLimit),
     expert   |-> expert_section]

\* combined_text of the Run Assessment handler
combined_text(d, tender, expert_section) ==
    IF ~Truthy(expert_section) THEN FullTender(tender)
    ELSE [labelled |-> TRUE,
          general  |-> TakeChars(d, tender, 0, GeneralLimit),
          expert   |-> expert_section]

\* the two calls of the Extract handler for a .docx upload
StructureResult == extract_expert_section_with_structure(doc, suffix, docxOpens, expert_name)
FallbackResult  == extract_expert_section_fallback(doc, TenderText(doc), expert_name)

\* expert_section as the Extract handler computes it
ExtractedBy(s) ==
    IF suffix = ".docx"
    THEN IF Truthy(s) THEN s ELSE FallbackResult
    ELSE FallbackResult

\* the st.info message of the Extract handler
InfoFor(s) ==
    IF suffix = ".docx"
    THEN IF Truthy(s) THEN "structure"
         ELSE IF Truthy(FallbackResult) THEN "regex" ELSE "none"
    ELSE IF Truthy(FallbackResult) THEN "pdf" ELSE "none"

\* history: the extractor whose code produced the text the handler stores
ProducedBy(s) ==
    IF suffix = ".docx" /\ docxOpens /\ Truthy(s) THEN "structure"
    ELSE IF Truthy(ExtractedBy(s)) THEN "regex" ELSE "none"

\* click on "Extract Expert Section"
App_Extract ==
    /\ expert_name # <<>>
    /\ LET s  == StructureResult
           es == ExtractedBy(s)
       IN  /\ extracted_section' = IF Truthy(es) THEN es ELSE EmptyText
           /\ section_extracted' = Truthy(es)
           /\ strategy_info' = InfoFor(s)
           /\ origin' = [how  |-> IF Truthy(es) THEN "extracted" ELSE "not_found",
                         name |-> expert_name,
                         by   |-> ProducedBy(s)]
    /\ last_event' = "extract"
    /\ UNCHANGED <<suffix, job_requirements>>
    /\ UNCHANGED <<inputVars, extractVars, assessVars, resolveVars, weightVars, promptVars>>

\* the user changes the content of the preview editor
App_Edit(t) ==
    /\ expert_name # <<>>
    /\ t # extracted_section
    /\ extracted_section' = t
    /\ origin' = [how |-> "edited", name |-> <<>>, by |-> "user"]
    /\ strategy_info' = "none"
    /\ last_event' = "edit"
    /\ UNCHANGED <<suffix, section_extracted, job_requirements>>
    /\ UNCHANGED <<inputVars, extractVars, assessVars, resolveVars, weightVars, promptVars>>

\* the user types another role title into the expert_name input
App_TypeRole(q) ==
    /\ q # expert_name
    /\ expert_name' = q
    /\ strategy_info' = "none"
    /\ last_event' = "role"
    /\ UNCHANGED <<doc, docxOpens, mammothOpens>>
    /\ UNCHANGED <<suffix, extracted_section, section_extracted, origin, job_requirements>>
    /\ UNCHANGED <<extractVars, assessVars, resolveVars, weightVars, promptVars>>

\* click on "Run Assessment": system.job_requirements = combined_text
App_Run ==
    /\ expert_name # <<>>
    /\ job_requirements' = combined_text(doc, TenderText(doc), extracted_section)
    /\ strategy_info' = "none"
    /\ last_event' = "run"
    /\ UNCHANGED <<suffix, extracted_section, section_extracted, origin>>
    /\ UNCHANGED <<inputVars, extractVars, assessVars, resolveVars, weightVars, promptVars>>

-----------------------------------------------------------------------------
(* The scoring oracle and the reports it writes *)

\* "Final Weighted Score: 0.75 / 1.00"
Rep_Weighted ==
    <<"F","i","n","a","l"," ","W","e","i","g","h","t","e","d"," ","S",
    "c","o","r","e",":"," ","0",".","7","5"," ","/"," ","1",".","0",
    "0">>
\* "FINAL SCORE: 42"
Rep_Upper ==
    <<"F","I","N","A","L"," ","S","C","O","R","E",":"," ","4","2">>
\* "Final Score: 0"
Rep_Zero ==
    <<"F","i","n","a","l"," ","S","c","o","r","e",":"," ","0">>
\* "Final Weighted Score: 0\.82", the dot escaped as in markdown
Rep_Escaped ==
    <<"F","i","n","a","l"," ","W","e","i","g","h","t","e","d"," ","S",
    "c","o","r","e",":"," ","0","\\",".","8","2">>
\* "Strong candidate.", a report without a score marker
Rep_NoMarker ==
    <<"S","t","r","o","n","g"," ","c","a","n","d","i","d","a","t","e",
    ".">>

Reports == {Rep_Weighted, Rep_Upper, Rep_Zero, Rep_Escaped, Rep_NoMarker}

\* what one call of client.chat.completions.create does: it raises (network,
\* timeout), answers without content (malformed), or answers with a report
OracleFailures == {[kind |-> "raises", text |-> <<>>], [kind |-> "malformed", text |-> <<>>]}
\* (a narrative report, or the JSON document of the structured prompt, here with
\* its overall_fit_score as text)
OracleOutcomes == OracleFailures \cup {[kind |-> "report", text |-> r] : r \in Reports}
                  \cup {[kind |-> "json", text |-> <<"7","0">>]}

\* the answers of the donor-detection call
DonorOutcomes == {"raises", "Unknown", "World Bank"}

-----------------------------------------------------------------------------
(* CVAssessmentSystem._assess_candidate_critical *)

\* a float, in hundredths
Float(h) == [null |-> FALSE, val |-> h]

\* the labelled-score pattern  Final Weighted Score.*?([0-9]\\.[0-9]+)  as the
\* regular-expression engine reads the raw string: the label (case-sensitive),
\* lazily any characters of the line, a digit, a backslash, one more character,
\* one or more digits
ScoreGroupAt(s, j) ==
    /\ j + 3 <= Len(s)
    /\ IsDigit(s[j])
    /\ s[j + 1] = "\\"
    /\ s[j + 2] # "\n"
    /\ IsDigit(s[j + 3])

ScoreLabel == <<"F","i","n","a","l"," ","W","e","i","g","h","t","e","d"," ","S","c","o","r","e">>

\* re.search: group 1, or <<>> when the pattern does not match
ScoreSearch(s) ==
    LET hits == {j \in 1..Len(s) :
                    /\ ScoreGroupAt(s, j)
                    /\ \E i \in 1..j : /\ LitAt(s, i, ScoreLabel)
                                       /\ i + Len(ScoreLabel) <= j
                                       /\ \A m \in i..j : s[m] # "\n"}
    IN  IF hits = {} THEN <<>>
        ELSE LET j == Least(hits) IN SubSeq(s, j, SkipDigits(s, j + 3) - 1)

\* float(text) succeeds: digits with at most one dot
IsFloatText(g) ==
    /\ \E i \in 1..Len(g) : IsDigit(g[i])
    /\ \A i \in 1..Len(g) : IsDigit(g[i]) \/ g[i] = "."
    /\ Cardinality({i \in 1..Len(g) : g[i] = "."}) <= 1

\* the value of a number text with at most two decimals, in hundredths
Hundredths(g) ==
    LET dots == {i \in 1..Len(g) : g[i] = "."}
    IN  IF dots = {} THEN 100 * IntOf(g)
        ELSE LET d    == Least(dots)
                 frac == SubSeq(g, d + 1, Len(g))
             IN  100 * IntOf(SubSeq(g, 1, d - 1))
                 + (IF Len(frac) = 0 THEN 0
                    ELSE IF Len(frac) = 1 THEN 10 * IntOf(frac)
                    ELSE IntOf(SubSeq(frac, 1, 2)))

\* donor_match: the answer of the donor call unless it raises or says "Unknown";
\* none of the donor patterns matches the tender texts of this model, which
\* leaves "General donor context"
donor_match_of(donorOutcome) ==
    IF donorOutcome \in {"raises", "Unknown"} THEN "General donor context"
    ELSE donorOutcome

\* the dict the operation returns
CriticalResult(filename, donor, outcome) ==
    IF outcome.kind \notin {"report", "json"}
    THEN [candidate_name |-> filename,
          report |-> [error |-> TRUE, donor |-> "", text |-> <<>>, cause |-> outcome.kind],
          final_score |-> Float(0)]
    ELSE LET g == ScoreSearch(Strip(outcome.text))
         IN  IF g # <<>> /\ ~IsFloatText(g)
             THEN \* float(match.group(1)) raises ValueError inside the try block
                  [candidate_name |-> filename,
                   report |-> [error |-> TRUE, donor |-> "", text |-> <<>>,
                               cause |-> "ValueError"],
                   final_score |-> Float(0)]
             ELSE [candidate_name |-> filename,
                   report |-> [error |-> FALSE, donor |-> donor,
                               text |-> Strip(outcome.text), cause |-> ""],
                   final_score |-> IF g # <<>> THEN Float(Hundredths(g)) ELSE Float(0)]

assess_candidate_critical(filename, donorOutcome, outcome) ==
    CriticalResult(filename, donor_match_of(donorOutcome), outcome)

-----------------------------------------------------------------------------
(* CVAssessmentSystem._assess_candidate_structured and models.CandidateAssessment *)

\* the fields of the dataclass; all but assessed_at have no default
CandidateAssessmentFields ==
    {"candidate_name", "filename", "overall_score", "fit_level",
     "experience_score", "experience_explanation", "skills_score", "skills_explanation",
     "education_score", "education_explanation", "cultural_fit_score",
     "cultural_fit_explanation", "requirements_met", "critical_gaps", "key_strengths",
     "key_weaknesses", "missing_requirements", "score_breakdown", "why_this_score",
     "recommendation", "recommendation_reasoning", "confidence_level",
     "interview_focus_areas", "red_flags", "potential_concerns", "executive_summary",
     "salary_recommendation", "assessed_at"}
CandidateAssessmentRequired == CandidateAssessmentFields \ {"assessed_at"}

\* the keyword arguments both constructor calls of the operation pass
StructuredKwargs ==
    {"candidate_name", "filename", "overall_score", "fit_level", "education_details",
     "experience_details", "skills_details", "job_fit_details", "weighted_score_total",
     "executive_summary", "recommendation", "interview_focus_areas", "red_flags",
     "potential_concerns", "assessed_at"}

\* CandidateAssessment(**kwargs) returns (it raises TypeError otherwise)
ConstructorAccepts(kwargs) ==
    /\ kwargs \subseteq CandidateAssessmentFields
    /\ CandidateAssessmentRequired \subseteq kwargs

\* what the operation does: it returns a record, or an exception leaves it
assess_candidate_structured(filename, outcome) ==
    IF outcome.kind = "json" /\ ConstructorAccepts(StructuredKwargs)
    THEN [raised |-> FALSE, candidate_name |-> filename, fit_level |-> "Unknown",
          overall_score |-> Float(Hundredths(outcome.text)), rationale |-> ""]
    ELSE \* except Exception as e: the error record is constructed
         IF ConstructorAccepts(StructuredKwargs)
         THEN [raised |-> FALSE, candidate_name |-> "Error", fit_level |-> "Error",
               overall_score |-> Float(0), rationale |-> outcome.kind]
         ELSE [raised |-> TRUE, candidate_name |-> filename, fit_level |-> "",
               overall_score |-> Float(0), rationale |-> "TypeError"]

-----------------------------------------------------------------------------
(* process_cv_folder (called by app.py and main.py) and the ranking of app.py *)

\* the candidate files of a folder
Candidates(n) == [i \in 1..n |-> i]

\* one candidate is assessed in critical mode and its dict appended
Assess_Critical(donorOutcome, outcome) ==
    /\ run_state = "running"
    /\ mode = "critical"
    /\ cv_files # <<>>
    /\ results' = Append(results, assess_candidate_critical(Head(cv_files), donorOutcome, outcome))
    /\ oracle' = Append(oracle, outcome)
    /\ cv_files' = Tail(cv_files)
    /\ UNCHANGED <<mode, ranked, run_state>>
    /\ UNCHANGED <<inputVars, extractVars, appVars, resolveVars, weightVars, promptVars>>

\* one candidate is assessed in structured mode; an exception that leaves the
\* operation ends the run
Assess_Structured(outcome) ==
    /\ run_state = "running"
    /\ mode = "structured"
    /\ cv_files # <<>>
    /\ LET r == assess_candidate_structured(Head(cv_files), outcome)
       IN  /\ results' = IF r.raised THEN results ELSE Append(results, r)
           /\ run_state' = IF r.raised THEN "raised" ELSE run_state
    /\ oracle' = Append(oracle, outcome)
    /\ cv_files' = Tail(cv_files)
    /\ UNCHANGED <<mode, ranked>>
    /\ UNCHANGED <<inputVars, extractVars, appVars, resolveVars, weightVars, promptVars>>

\* the folder is exhausted: process_cv_folder returns results
Assess_Return ==
    /\ run_state = "running"
    /\ cv_files = <<>>
    /\ run_state' = "done"
    /\ UNCHANGED <<mode, cv_files, oracle, results, ranked>>
    /\ UNCHANGED <<inputVars, extractVars, appVars, resolveVars, weightVars, promptVars>>

\* the sort key: x.get("final_score", 0) or x.overall_score
SortKey(r) == IF mode = "critical" THEN r.final_score.val ELSE r.overall_score.val

\* sorted(results, key=..., reverse=True): stable, larger keys first
RECURSIVE InsertDesc(_, _)
InsertDesc(sorted, r) ==
    IF sorted = <<>> THEN <<r>>
    ELSE IF SortKey(Head(sorted)) >= SortKey(r)
         THEN <<Head(sorted)>> \o InsertDesc(Tail(sorted), r)
         ELSE <<r>> \o sorted
RECURSIVE SortedDesc(_)
SortedDesc(rs) ==
    IF rs = <<>> THEN <<>>
    ELSE InsertDesc(SortedDesc(SubSeq(rs, 1, Len(rs) - 1)), rs[Len(rs)])

\* the ranking table
Rank ==
    /\ run_state = "done"
    /\ ranked' = SortedDesc(results)
    /\ run_state' = "ranked"
    /\ UNCHANGED <<mode, cv_files, oracle, results>>
    /\ UNCHANGED <<inputVars, extractVars, appVars, resolveVars, weightVars, promptVars>>

-----------------------------------------------------------------------------
(* Role-number resolution, extractor by extractor *)

Extractors == {"bold", "mammoth", "structure", "fallback"}

\* nothing resolved yet
Unresolved == <<"?">>

\* the resolved number as a digit string: str(current_num) / target_number
Resolution(e, name) ==
    IF e \in {"bold", "mammoth"} THEN
        \* both functions repeat the same normalisation and search
        LET n == current_num_of(name)
        IN  IF n < 10 THEN Num(n) ELSE Num(n \div 10) \o Num(n % 10)
    ELSE target_number_of(name)

Resolve(e) ==
    /\ resolved[e] = Unresolved
    /\ resolved' = [resolved EXCEPT ![e] = Resolution(e, expert_name)]
    /\ UNCHANGED <<inputVars, extractVars, appVars, assessVars, weightVars, promptVars>>

-----------------------------------------------------------------------------
(* Criterion weighting *)

\* the split of combined_text: "GENERAL TENDER CONTEXT (20% weight)" and
\* "SPECIFIC EXPERT REQUIREMENTS (80% weight)"
GeneralWeight == 20
ExpertWeight == 80

\* |sum - T| tolerated without rescaling, in percentage points
Tolerance == 2

Abs(x) == IF x < 0 THEN -x ELSE x

\* the weights left as they are whatever their sum
Rescaled_Never(ws, T) ==
    [i \in 1..Len(ws) |-> [num |-> ws[i] * SumSeq(ws), den |-> SumSeq(ws)]]

\* A weight is a fraction [num, den]; the weights of one table share den.
\* rescale every weight by T / sum(weight) when the sum is off by more than the
\* tolerance, leave them as they are otherwise
Rescaled(ws, T) ==
    LET S == SumSeq(ws)
    IN  IF Abs(S - T) > Tolerance
        THEN [i \in 1..Len(ws) |-> [num |-> ws[i] * T, den |-> S]]
        ELSE [i \in 1..Len(ws) |-> [num |-> ws[i] * S, den |-> S]]

\* role-specific mode adds the general-context criterion of weight 100 - T
FinalizedTable(ws, T) ==
    LET S == SumSeq(ws)
    IN  IF T = ExpertWeight
        THEN Append(Rescaled(ws, T), [num |-> (100 - T) * S, den |-> S])
        ELSE Rescaled(ws, T)

Finalize ==
    /\ table = <<>>
    /\ criteria # <<>>
    /\ table' = FinalizedTable(criteria, target_total)
    /\ UNCHANGED <<criteria, target_total>>
    /\ UNCHANGED <<inputVars, extractVars, appVars, assessVars, resolveVars, promptVars>>

-----------------------------------------------------------------------------
(* The requirements text on its way to the scoring oracle, by length.        *)
(* combined_text and the two prompts cut their inputs at fixed character     *)
(* counts; here the texts are given by their lengths and a text cut is the   *)
(* number of its characters that remain.                                      *)

\* len("--- GENERAL TENDER CONTEXT (20% weight) ---\n\n")
GeneralHeaderLen == 45

\* len("\n\n" "--- SPECIFIC EXPERT REQUIREMENTS (80% weight) ---\n\n")
ExpertHeaderLen == 53

\* self.job_requirements[:4000] of the critical prompt
CriticalLimit == 4000

\* self.job_requirements[:10000] of the structured prompt
StructuredLimit == 10000

Min(a, b) == IF a <= b THEN a ELSE b
Max(a, b) == IF a >= b THEN a ELSE b

\* nothing handed over yet
NoLayout == [len |-> 0, labelled |-> FALSE, expert_at |-> 0, expert_len |-> 0]
NoPrompt == [sent |-> FALSE, reqs_chars |-> 0, expert_chars |-> 0]

PromptIdle == tender_len = 0 /\ section_len = 0 /\ requirements = NoLayout /\ prompt = NoPrompt

\* combined_text by length: expert_at is the offset of the first character of
\* the expert section
combined_layout(tlen, slen) ==
    IF slen = 0
    THEN [len |-> tlen, labelled |-> FALSE, expert_at |-> 0, expert_len |-> 0]
    ELSE LET at == GeneralHeaderLen + Min(tlen, GeneralLimit) + ExpertHeaderLen
         IN  [len |-> at + slen, labelled |-> TRUE, expert_at |-> at, expert_len |-> slen]

\* s[:limit] of a text with the layout r: the characters of the requirements
\* and of the expert section that remain
Truncated(r, limit) ==
    LET kept == Min(r.len, limit)
    IN  [sent |-> TRUE,
         reqs_chars   |-> kept,
         expert_chars |-> IF r.labelled THEN Max(0, kept - r.expert_at) ELSE 0]

\* Run Assessment: system.job_requirements = combined_text
Prompt_Combine ==
    /\ requirements = NoLayout
    /\ tender_len + section_len > 0
    /\ requirements' = combined_layout(tender_len, section_len)
    /\ UNCHANGED <<tender_len, section_len, prompt>>
    /\ UNCHANGED <<inputVars, extractVars, appVars, assessVars, resolveVars, weightVars>>

\* the user message of _assess_candidate_critical
Prompt_Critical ==
    /\ requirements # NoLayout
    /\ ~prompt.sent
    /\ mode = "critical"
    /\ prompt' = Truncated(requirements, CriticalLimit)
    /\ UNCHANGED <<tender_len, section_len, requirements>>
    /\ UNCHANGED <<inputVars, extractVars, appVars, assessVars, resolveVars, weightVars>>

\* the prompt of _assess_candidate_structured
Prompt_Structured ==
    /\ requirements # NoLayout
    /\ ~prompt.sent
    /\ mode = "structured"
    /\ prompt' = Truncated(requirements, StructuredLimit)
    /\ UNCHANGED <<tender_len, section_len, requirements>>
    /\ UNCHANGED <<inputVars, extractVars, appVars, assessVars, resolveVars, weightVars>>

-----------------------------------------------------------------------------
(* Specifications *)

\* most candidates in a folder
MaxCandidates == 2

\* most criteria in a list
MaxCriteria == 3

\* the weights a criterion may carry
WeightValues == {10, 20, 39, 40, 41, 60}

\* the target totals: role-specific mode and general mode
TargetTotals == {ExpertWeight, 100}

InputIdle   == doc = <<>> /\ docxOpens = FALSE /\ mammothOpens = FALSE /\ expert_name = <<>>
ExtractIdle == /\ current_num = 0 /\ idx = 0 /\ capture = FALSE /\ buffer = <<>>
               /\ sections = <<>> /\ dropped = {} /\ section = NoText
               /\ flat_section = NoText /\ result = NoText
AppIdle     == /\ suffix = ".docx" /\ extracted_section = EmptyText
               /\ section_extracted = FALSE /\ strategy_info = "none"
               /\ origin = [how |-> "init", name |-> <<>>, by |-> "none"]
               /\ last_event = "none" /\ job_requirements = NoRequirements
AssessIdle  == /\ mode = "critical" /\ cv_files = <<>> /\ oracle = <<>> /\ results = <<>>
               /\ ranked = <<>> /\ run_state = "idle"
ResolveIdle == resolved = [e \in Extractors |-> Unresolved]
WeightIdle  == criteria = <<>> /\ target_total = 100 /\ table = <<>>

\* the role queries the extraction is run for
ExtractQueries == {Q_KeyExpert(1), Q_KE(2), Q_TeamLeader}

\* ---- CVAssessmentSystem.extract_expert_sections on a document ----
Init ==
    /\ doc \in Docs
    /\ docxOpens \in BOOLEAN
    /\ mammothOpens \in BOOLEAN
    /\ expert_name \in ExtractQueries
    /\ pc = "call"
    /\ ExtractIdle /\ AppIdle /\ AssessIdle /\ ResolveIdle /\ WeightIdle /\ PromptIdle

Next ==
    \/ Bold_OpenFails
    \/ Bold_Open
    \/ Bold_SkipBlank
    \/ Bold_Start
    \/ Bold_Stop
    \/ Bold_Cutoff
    \/ Bold_Append
    \/ Bold_PassOver
    \/ Bold_Return
    \/ Chain_ReturnBold
    \/ Chain_CallMammoth
    \/ Chain_ReturnMammoth
    \/ Chain_ReturnEmpty

Spec == Init /\ [][Next]_vars

\* ---- the Streamlit script of app.py ----
AppQueries == {Q_KeyExpert(1), Q_KE(2)}

\* the uploads: a Word file, a PDF, and a PDF that carries the suffix .docx
\* (load_job_requirements reads it, Document() does not)
Uploads == {[suffix |-> ".docx", opens |-> TRUE], [suffix |-> ".docx", opens |-> FALSE],
            [suffix |-> ".pdf", opens |-> FALSE]}

\* the paragraph kinds of the short uploads
AppParaKinds == {H(1), KEh(1), H(2), Body, Annex}

AppDocs == SeqsUpTo(AppParaKinds, MaxParas - 1) \cup ShapeDocs \cup AnnexDocs

InitApp ==
    /\ doc \in AppDocs
    /\ \E u \in Uploads : suffix = u.suffix /\ docxOpens = u.opens
    /\ mammothOpens = FALSE
    /\ expert_name \in AppQueries
    /\ pc = "idle"
    /\ extracted_section = EmptyText
    /\ section_extracted = FALSE
    /\ strategy_info = "none"
    /\ origin = [how |-> "init", name |-> <<>>, by |-> "none"]
    /\ last_event = "none"
    /\ job_requirements = NoRequirements
    /\ ExtractIdle /\ AssessIdle /\ ResolveIdle /\ WeightIdle /\ PromptIdle

NextApp ==
    \/ App_Extract
    \/ \E t \in {EmptyText, TypedText} : App_Edit(t)
    \/ \E q \in AppQueries : App_TypeRole(q)
    \/ App_Run

SpecApp == InitApp /\ [][NextApp]_vars

\* ---- the assessment of the candidates of a folder ----
InitAssess ==
    /\ mode \in {"structured", "critical"}
    /\ \E n \in 1..MaxCandidates : cv_files = Candidates(n)
    /\ oracle = <<>>
    /\ results = <<>>
    /\ ranked = <<>>
    /\ run_state = "running"
    /\ pc = "idle"
    /\ InputIdle /\ ExtractIdle /\ AppIdle /\ ResolveIdle /\ WeightIdle /\ PromptIdle

NextAssess ==
    \/ \E d \in DonorOutcomes, o \in OracleOutcomes : Assess_Critical(d, o)
    \/ \E o \in OracleOutcomes : Assess_Structured(o)
    \/ Assess_Return
    \/ Rank

SpecAssess == InitAssess /\ [][NextAssess]_vars

\* ---- role-number resolution ----
InitResolve ==
    /\ expert_name \in Queries
    /\ doc = <<>> /\ docxOpens = FALSE /\ mammothOpens = FALSE
    /\ pc = "idle"
    /\ ExtractIdle /\ AppIdle /\ AssessIdle /\ ResolveIdle /\ WeightIdle /\ PromptIdle

NextResolve == \E e \in Extractors : Resolve(e)

SpecResolve == InitResolve /\ [][NextResolve]_vars

\* ---- criterion weighting ----
InitWeights ==
    /\ criteria \in SeqsUpTo(WeightValues, MaxCriteria) \ {<<>>}
    /\ target_total \in TargetTotals
    /\ table = <<>>
    /\ pc = "idle"
    /\ InputIdle /\ ExtractIdle /\ AppIdle /\ AssessIdle /\ ResolveIdle /\ PromptIdle

NextWeights == Finalize

SpecWeights == InitWeights /\ [][NextWeights]_vars

\* ---- the requirements text on its way to the oracle ----
\* text lengths are multiples of LenStep, up to MaxLenSteps steps
LenStep == 1300
MaxLenSteps == 8
Lengths == {k * LenStep : k \in 0..MaxLenSteps}

InitPrompt ==
    /\ tender_len \in Lengths
    /\ section_len \in Lengths
    /\ requirements = NoLayout
    /\ prompt = NoPrompt
    /\ mode \in {"structured", "critical"}
    /\ cv_files = <<>> /\ oracle = <<>> /\ results = <<>> /\ ranked = <<>> /\ run_state = "idle"
    /\ pc = "idle"
    /\ InputIdle /\ ExtractIdle /\ AppIdle /\ ResolveIdle /\ WeightIdle

NextPrompt ==
    \/ Prompt_Combine
    \/ Prompt_Critical
    \/ Prompt_Structured

SpecPrompt == InitPrompt /\ [][NextPrompt]_vars

-----------------------------------------------------------------------------
(* Properties: role-section extraction *)

\* C1: extracting role 1 from the paragraphs [Key Expert 1 heading, content,
\* Key Expert 2 heading, content, Key Expert 1 heading (again), content,
\* Key Expert 3 heading, content], each role-1 run longer than the minimum
\* length, yields exactly two segments, and neither holds a paragraph of role 2
\* or role 3.  Stated of the text the Extract handler stores for a Word upload
\* with plain content paragraphs.
C1_TwoSegmentsForRepeatedRole ==
    (/\ last_event = "extract"
     /\ suffix = ".docx" /\ docxOpens
     /\ expert_name = Q_KeyExpert(1)
     /\ doc \in ShapeDocs
     /\ doc[1] = H(1) /\ doc[2] = Body)
    => /\ Len(extracted_section.segs) = 2
       /\ ParasIn(extracted_section) = {1, 2, 5, 6}

\* C2: when the heading of the target role is followed by continuation
\* paragraphs and then by the heading of a differently numbered role or by the
\* end of the document, the bold-based extraction returns exactly the
\* paragraphs from the heading up to, and not including, that boundary; an open
\* segment is closed and emitted at the end of the document.  Stated for the
\* query "Key Expert 1" on documents that begin with its heading, continue with
\* requirement text or the sub-heading "Qualifications and skills", and then
\* end or name Key Expert 2, without naming role 1 again.
C2_HeadingUpToBoundary ==
    LET conts == {k \in 1..Len(doc) : \A i \in 2..k : doc[i] \in {Body, Sub}}
        last  == CHOOSE k \in conts : \A j \in conts : j <= k
    IN  (/\ pc \in {"bold_returned", "mammoth_returned", "returned"}
         /\ docxOpens
         /\ expert_name = Q_KeyExpert(1)
         /\ doc # <<>>
         /\ doc[1] = H(1)
         /\ last >= 2
         /\ last = Len(doc) \/ doc[last + 1] = H(2)
         /\ \A i \in (last + 1)..Len(doc) : ~MatchesCurrent(doc[i], 1))
        => section = TextOfSegs(<<PositionsOf(doc, [i \in 1..last |-> i])>>)

\* C3: when the target role is the last one before an "Annex" section, no
\* paragraph from the Annex heading onward is in the extracted text, whether or
\* not the heading is bold and whatever else it mentions.  Stated of the text
\* the Extract handler stores for the documents [Key Expert 2 heading, content,
\* Key Expert 1 heading, content, Annex heading, content].
C3_StopsBeforeAnnex ==
    (/\ last_event = "extract"
     /\ expert_name = Q_KeyExpert(1)
     /\ doc \in AnnexDocs
     /\ doc[3] = H(1)
     /\ doc[5][1].k = "Annex")
    => ParasIn(extracted_section) \cap {5, 6} = {}

\* C4: two role queries that differ only by letter case, spacing or
\* abbreviation of the same numbered role resolve to the same canonical number,
\* the number n of the role, in every extractor that derives a number from the
\* query.
C4_VariantsResolveAlike ==
    \A e \in Extractors : \A n \in Roles :
        (expert_name \in Variants(n) /\ resolved[e] # Unresolved) => resolved[e] = Num(n)

-----------------------------------------------------------------------------
(* Properties: score recovery and per-candidate results *)

\* C5: for a report that holds a labelled final score the recovered score is
\* the number after the label: "Final Weighted Score: 0.75 / 1.00" yields 0.75
\* and "FINAL SCORE: 42" yields 42 (scores in hundredths).
C5_LabelledScoreRecovered ==
    mode = "critical" =>
        \A i \in 1..Len(results) :
            /\ oracle[i].text = Rep_Weighted => results[i].final_score = Float(75)
            /\ oracle[i].text = Rep_Upper    => results[i].final_score = Float(4200)

\* C6: for a report with no score marker the result of the candidate carries a
\* null score (the unparsed flag), distinguishable from a parsed score of 0,
\* and the ranking does not place it as if its score were 0: it is never ranked
\* ahead of a candidate whose score was parsed.
C6_UnparsedScoreIsNull ==
    mode = "critical" =>
        /\ \A i \in 1..Len(results) :
               oracle[i].text = Rep_NoMarker => results[i].final_score.null
        /\ \A i \in 1..Len(ranked) : \A j \in 1..Len(ranked) :
               (ranked[i].final_score.null /\ ~ranked[j].final_score.null) => j < i

\* C7: when the oracle call for a candidate fails (it raises, or its answer is
\* malformed), the per-candidate operation, in structured and in critical mode,
\* does not propagate the failure: it returns an error record for the candidate
\* whose numeric score is null.
C7_OracleFailureBecomesErrorRecord ==
    \A i \in 1..Len(oracle) :
        oracle[i] \in OracleFailures =>
            /\ run_state # "raised"
            /\ i <= Len(results)
            /\ IF mode = "critical"
               THEN results[i].report.error /\ results[i].final_score.null
               ELSE results[i].fit_level = "Error" /\ results[i].overall_score.null

-----------------------------------------------------------------------------
(* Properties: the fallback chain *)

\* C8: the chain tries the bold-based strategy first and the flat-text regex
\* second and returns the result of the first whose output is non-empty and not
\* an error marker: the second strategy is not called when the first is
\* accepted, its result is returned only if the first returned an empty result
\* or an error marker, what is returned is never an error marker, and a
\* strategy that cannot open the document does not end the chain (the next
\* strategy was called, or "" is returned).
C8_FirstAcceptedStrategyWins ==
    pc = "returned" =>
        LET ok(t) == t.kind = "text" /\ t.segs # <<>>
        IN  /\ ok(section) => (result = section /\ flat_section = NoText)
            /\ (~ok(section) /\ ok(flat_section)) => result = flat_section
            /\ (~ok(section) /\ ~ok(flat_section)) =>
                   (result = EmptyText /\ flat_section # NoText)

\* C8 witness: the bold-based strategy returned nothing acceptable and the
\* chain returned the text the flat-text regex found
C8_SecondStrategyReturned ==
    /\ pc = "returned"
    /\ section.kind \in {"error", "text"} /\ section.segs = <<>>
    /\ flat_section.segs # <<>>
    /\ result = flat_section

\* C9: if no strategy of the chain yields a non-empty segment, the requirements
\* text handed to the scoring step is the full, un-segmented tender document.
C9_FullTenderWhenNothingExtracted ==
    (last_event = "run" /\ origin.how = "not_found")
    => job_requirements = [labelled |-> FALSE, general |-> FlatText(doc), expert |-> NoText]

\* C9 witness: nothing was extracted from a non-empty tender and the run
\* received the whole document
C9_RunAfterNothingFound ==
    /\ last_event = "run"
    /\ origin.how = "not_found"
    /\ doc # <<>>
    /\ job_requirements.general = FlatText(doc)

-----------------------------------------------------------------------------
(* Properties: criterion weighting *)

\* C10 as stated: for every criteria list with a positive weight sum and every
\* target total T in {80, 100} the finalized criteria table sums to exactly 100.
C10_TableSumsToExactly100 ==
    table # <<>> => SumSeq([i \in 1..Len(table) |-> table[i].num]) = 100 * table[1].den

\* C10 as amended: the finalized table sums to exactly 100 when the weights
\* were rescaled (their sum differed from T by more than 2) or their sum is T;
\* left as they are, with a sum within 2 of T, the table sums to
\* 100 + (sum - T), which is within 2 of 100.
C10_TableSumsTo100WithinTolerance ==
    table # <<>> =>
        LET S     == SumSeq(criteria)
            total == SumSeq([i \in 1..Len(table) |-> table[i].num])
            den   == table[1].den
        IN  /\ Len(table) = Len(criteria) + (IF target_total = ExpertWeight THEN 1 ELSE 0)
            /\ Abs(S - target_total) > 2  => total = 100 * den
            /\ Abs(S - target_total) <= 2 => total = (100 + S - target_total) * den
            /\ Abs(total - 100 * den) <= 2 * den

\* C10 witness: a role-specific table whose weights were rescaled
C10_RescaledRoleSpecificTable ==
    /\ table # <<>>
    /\ target_total = ExpertWeight
    /\ Abs(SumSeq(criteria) - target_total) > 2
    /\ table[1].num # criteria[1] * table[1].den

-----------------------------------------------------------------------------
(* Properties: boundary classification and the capture buffer *)

\* C11: while a segment is being captured, a bold paragraph whose text matches
\* the expert-description vocabulary ("Qualifications and skills") is a
\* continuation: the step that reads it leaves the segment open and puts the
\* paragraph into it.
C11_BoldDescriptionContinues ==
    [][(InLoop /\ capture /\ doc[idx] = Sub)
       => (capture' /\ buffer' # <<>> /\ buffer'[Len(buffer')] = idx)]_vars

\* C12: for a role query without a number ("Team Leader") the role is
\* name-based: a segment starts only at a paragraph that holds the literal name
\* of the query, never at one that merely carries a numbered role marker.
C12_NameBasedStartsAtName ==
    [][(expert_name = Q_TeamLeader /\ InLoop /\ buffer' = <<idx>>)
       => Contains(ParaText(doc[idx]), Lower(expert_name))]_vars

\* C16: in the bold-based extractor no captured paragraph is lost: when the
\* extractor has returned, every paragraph that was placed in the capture
\* buffer is in a closed segment, also when a second paragraph naming the
\* target role arrived while a segment was being captured.
C16_NoCapturedParagraphLost ==
    (pc \in {"bold_returned", "mammoth_returned", "returned"} /\ docxOpens)
    => \A i \in dropped : \E s \in 1..Len(sections) : \E j \in 1..Len(sections[s]) :
           sections[s][j] = i

\* C18: every segment of the joined output is longer than the minimum length
\* (40 characters in the bold-based extractor, 30 in the flat-text extractor),
\* and when every segment is discarded the extractor returns the empty string.
C18_OnlyLongSegmentsJoined ==
    pc \in {"bold_returned", "mammoth_returned", "returned"} =>
        /\ \A s \in 1..Len(section.segs) : SegLen(doc, section.segs[s]) > 40
        /\ \A s \in 1..Len(flat_section.segs) : SegLen(doc, flat_section.segs[s]) > 30
        /\ (docxOpens /\ \A s \in 1..Len(sections) :
                             SegLen(doc, PositionsOf(doc, sections[s])) <= 40)
           => section = EmptyText
        /\ section.kind = "text" =>
               Len(section.segs) = Cardinality({s \in 1..Len(sections) :
                                      SegLen(doc, PositionsOf(doc, sections[s])) > 40})

\* C18 witness: the bold-based extractor discarded every segment it closed and
\* returned "", and the flat-text extractor kept a segment of more than 30
\* characters
C18_ShortDiscardedLongKept ==
    /\ pc = "returned"
    /\ sections # <<>>
    /\ section = EmptyText
    /\ result.segs # <<>>

-----------------------------------------------------------------------------
(* Properties: resolution of "expert n", the surfaced strategy, the stored section *)

\* C13: for a role query in which one of the prefixes "key expert", "ke" or
\* "expert" is immediately followed by a number N, the resolved canonical
\* number is N; stated for the queries "Expert N".
C13_ExpertPrefixResolves ==
    \A e \in Extractors : \A n \in Roles :
        (expert_name = Q_Expert(n) /\ resolved[e] # Unresolved) => resolved[e] = Num(n)

\* C14: whenever an extraction succeeds, the strategy surfaced to the user
\* (structure-aware, regex fallback, PDF text-based) is the strategy that
\* produced the stored text, also when the structure-aware extractor fails
\* internally.
C14_SurfacedStrategyProducedText ==
    (last_event = "extract" /\ origin.how = "extracted") =>
        /\ strategy_info = "structure" <=> origin.by = "structure"
        /\ strategy_info \in {"regex", "pdf"} <=> origin.by = "regex"

\* C15: the stored extracted section changes only through an explicit
\* re-extraction, so the section used for scoring is the one extracted for the
\* currently entered role; stated of the runs that score an extracted,
\* unedited section.
C15_ScoredSectionIsForCurrentRole ==
    (last_event = "run" /\ job_requirements.labelled /\ origin.how = "extracted")
    => origin.name = expert_name

-----------------------------------------------------------------------------
(* Properties: the expert section in the prompt *)

\* C17: when a non-empty expert section is supplied, the requirements text
\* that reaches the scoring oracle holds at least the beginning of that
\* section, in structured and in critical mode and for a tender text of any
\* length.
C17_ExpertSectionReachesOracle ==
    (prompt.sent /\ section_len > 0) => prompt.expert_chars > 0

====
